---- MODULE Spec2Model ----
(***************************************************************************)
(* A model of generator.py: the retry loop around the external content     *)
(* call (generate_article_with_gemini), the two metadata enrichers, the    *)
(* output writers, and the batch loop (generate_bulk_articles) with the    *)
(* run summary.  Text is a sequence of one-character strings.              *)
(***************************************************************************)
EXTENDS Integers, Sequences, FiniteSets, TLC

(* ------------------------------ bounds -------------------------------- *)

\* longest request list handed to generate_bulk_articles
MaxRequests == 3
\* most requests of a list that carry a (non-empty) title
MaxTitled == 2
\* largest max_retries handed to generate_article_with_gemini directly
MaxRetriesBound == 4

(* ------------------------- program constants -------------------------- *)

\* generate_article_with_gemini(title, description="", max_retries=3)
DefaultMaxRetries == 3
\* time.sleep(2) between requests
PacingDelay == 2
\* description[:160]
MetaLimit == 160
\* first_paragraph[:157] + "..."
FallbackLimit == 157
\* content[:200]
FallbackPrefix == 200

(* ------------------------------- text --------------------------------- *)

Whitespace == {" ", "\n", "\t"}

Digits == {"0", "1", "2"}
LowerLetters == {"a", "b", "c", "x", "y", "z"}
UpperLetters == {"A", "B", "C"}

\* characters outside ASCII, each written as its Unicode name: a cased letter
\* in both cases, a letter without case, a numeric character that is no digit
EAcute == "LATIN SMALL LETTER E WITH ACUTE"
EAcuteUpper == "LATIN CAPITAL LETTER E WITH ACUTE"
Ideograph == "CJK UNIFIED IDEOGRAPH-65E5"
OneHalf == "VULGAR FRACTION ONE HALF"

\* str.lower() on one character
LowerChar(c) ==
  CASE c = "A" -> "a"
    [] c = "B" -> "b"
    [] c = "C" -> "c"
    [] c = EAcuteUpper -> EAcute
    [] OTHER -> c

\* str.isalnum() on one character, for the characters used here: true of
\* every letter, decimal, digit and numeric character of Unicode
IsAlnum(c) ==
  c \in Digits \cup LowerLetters \cup UpperLetters
         \cup {EAcute, EAcuteUpper, Ideograph, OneHalf}

Lower(s) == [k \in 1..Len(s) |-> LowerChar(s[k])]

\* s.replace(a, b) for a single character a
ReplaceChar(s, a, b) == [k \in 1..Len(s) |-> IF s[k] = a THEN b ELSE s[k]]

\* s[:n]
Take(s, n) == SubSeq(s, 1, IF n < Len(s) THEN n ELSE Len(s))

\* s[n:] (0-based n)
Drop(s, n) == SubSeq(s, n + 1, Len(s))

\* s.startswith(p)
StartsWith(s, p) == Len(s) >= Len(p) /\ SubSeq(s, 1, Len(p)) = p

RECURSIVE LStrip(_, _)
LStrip(s, cs) ==
  IF s # << >> /\ Head(s) \in cs THEN LStrip(Tail(s), cs) ELSE s

RECURSIVE RStrip(_, _)
RStrip(s, cs) ==
  IF s # << >> /\ s[Len(s)] \in cs THEN RStrip(SubSeq(s, 1, Len(s) - 1), cs) ELSE s

\* s.strip(cs); s.strip() is StripChars(s, Whitespace)
StripChars(s, cs) == RStrip(LStrip(s, cs), cs)

Strip(s) == StripChars(s, Whitespace)

\* s.find(pat) for a non-empty pattern: the 1-based position of the leftmost
\* occurrence of pat in s, or 0 when there is none
Find(s, pat) ==
  LET at == {k \in 1..(Len(s) - Len(pat) + 1) : SubSeq(s, k, k + Len(pat) - 1) = pat}
  IN  IF at = {} THEN 0 ELSE CHOOSE k \in at : \A l \in at : k <= l

\* s.replace(pat, "") for a non-empty pattern, left to right, non-overlapping
RECURSIVE Remove(_, _)
Remove(s, pat) ==
  LET k == Find(s, pat)
  IN  IF k = 0 THEN s
      ELSE SubSeq(s, 1, k - 1) \o Remove(Drop(s, k - 1 + Len(pat)), pat)

\* s.split(sep) for a non-empty separator: the sequence of pieces
RECURSIVE Split(_, _)
Split(s, sep) ==
  LET k == Find(s, sep)
  IN  IF k = 0 THEN <<s>>
      ELSE <<SubSeq(s, 1, k - 1)>> \o Split(Drop(s, k - 1 + Len(sep)), sep)

\* len(s.split()): the number of whitespace-delimited tokens, counted by the
\* positions where a token begins
WordCount(s) ==
  Cardinality({k \in 1..Len(s) :
                 s[k] \notin Whitespace /\ (k = 1 \/ s[k - 1] \in Whitespace)})

\* s.split(): the whitespace-delimited tokens
RECURSIVE WordsAcc(_, _)
WordsAcc(s, cur) ==
  IF s = << >> THEN (IF cur = << >> THEN << >> ELSE <<cur>>)
  ELSE IF Head(s) \in Whitespace
    THEN (IF cur = << >> THEN << >> ELSE <<cur>>) \o WordsAcc(Tail(s), << >>)
  ELSE WordsAcc(Tail(s), Append(cur, Head(s)))

Words(s) == WordsAcc(s, << >>)

\* sep.join(parts)
RECURSIVE Join(_, _)
Join(parts, sep) ==
  IF parts = << >> THEN << >>
  ELSE IF Len(parts) = 1 THEN parts[1]
  ELSE parts[1] \o sep \o Join(Tail(parts), sep)

\* ''.join(c for c in s if keep(c))
RECURSIVE FilterAlnumHyphen(_)
FilterAlnumHyphen(s) ==
  IF s = << >> THEN << >>
  ELSE (IF IsAlnum(Head(s)) \/ Head(s) = "-" THEN <<Head(s)>> ELSE << >>)
       \o FilterAlnumHyphen(Tail(s))

(* ------------------------- pure program parts ------------------------- *)

\* lines 161-162 and 225-226: the base file name derived from a title
BaseName(t) ==
  FilterAlnumHyphen(ReplaceChar(ReplaceChar(Lower(t), " ", "-"), "/", "-"))

\* a path made of the title as it is
ArticlePathUnsanitized(t, ext) == [name |-> t, ext |-> ext]

\* lines 163 and 227: Path(output_dir) / f"{filename}.html" or ".md"
ArticlePath(t, ext) == [name |-> BaseName(t), ext |-> ext]

\* line 297: Path(output_dir) / "generation_summary.json"
SummaryPath == [name |-> <<"generation_summary">>, ext |-> "json"]

\* the backquote character
Backquote == "BACKQUOTE"

\* the three-backquote code fence, and the fence that opens a markdown block
Fence == <<Backquote, Backquote, Backquote>>
FenceMarkdown == Fence \o <<"m", "a", "r", "k", "d", "o", "w", "n">>
HeadingMark == <<"#", " ">>
ParagraphBreak == <<"\n", "\n">>
Ellipsis == <<".", ".", ".">>

\* lines 89-96: the content made of a readable response text
PostProcess(t, text) ==
  LET cleaned == Strip(Remove(Remove(Strip(text), FenceMarkdown), Fence))
  IN  IF ~StartsWith(cleaned, HeadingMark)
        THEN HeadingMark \o t \o ParagraphBreak \o cleaned
        ELSE cleaned

\* lines 134-135: the description made of the enricher's response text
MetaFromResponse(text) == Take(StripChars(Strip(text), {"\"", "'"}), MetaLimit)

\* the fallback with the paragraph as it is, not cut to 157 characters
MetaFallbackUncut(c) ==
  LET parts == Split(c, ParagraphBreak)
      first_paragraph == IF Len(parts) > 1 THEN parts[2] ELSE Take(c, FallbackPrefix)
  IN  first_paragraph \o Ellipsis

\* lines 138-139: the local fallback of the description
MetaFallback(c) ==
  LET parts == Split(c, ParagraphBreak)
      first_paragraph == IF Len(parts) > 1 THEN parts[2] ELSE Take(c, FallbackPrefix)
  IN  Take(first_paragraph, FallbackLimit) \o Ellipsis

\* lines 151-152: the keywords made of the enricher's response text
KeywordsFromResponse(text) == Strip(text)

\* line 155: the local fallback of the keywords
KeywordsFallback(t) == Join(Words(Lower(t)), <<",", " ">>)

\* lines 106-112: the record returned by a successful attempt
ArticleData(t, c, m, k) ==
  [title |-> t, content |-> c, meta_description |-> m, keywords |-> k,
   word_count |-> WordCount(c)]

\* Python's None
None == [none |-> TRUE]

\* lines 165-216: what save_article_as_html writes
HtmlFile(a) ==
  [kind |-> "html", title |-> a.title, meta_description |-> a.meta_description,
   keywords |-> a.keywords, content |-> a.content]

\* lines 229-230: what save_article_as_markdown writes
MarkdownFile(a) == [kind |-> "markdown", content |-> a.content]

\* lines 299-311: the summary (generation_date, a clock reading, is left out)
Summary(rs) ==
  [kind |-> "summary",
   total_articles |-> Len(rs),
   articles |-> [k \in 1..Len(rs) |->
                   [title |-> rs[k].title, filepath |-> rs[k].filepath,
                    word_count |-> rs[k].word_count,
                    meta_description |-> rs[k].meta_description]]]

\* a file left by an earlier run, and a file whose write was cut short
StaleFile == [kind |-> "stale"]
PartialFile == [kind |-> "partial"]

\* a write that leaves the directory as it was
WriteFileNothing(d, p, c) == d

\* a write that leaves an existing file alone
WriteFileKeepExisting(d, p, c) ==
  [q \in (DOMAIN d) \cup {p} |-> IF q \in DOMAIN d THEN d[q] ELSE c]

\* writing file c at path p
WriteFile(d, p, c) == [q \in (DOMAIN d) \cup {p} |-> IF q = p THEN c ELSE d[q]]

\* line 272: output_format.lower() == 'html'
IsHtml(fmt) == Lower(fmt) = <<"h", "t", "m", "l">>

\* a linear backoff in place of the exponential one
WaitTimeLinear(a) == 2 * (a + 1)

\* 2 ** attempt, the backoff of line 117
WaitTime(a) == 2 ^ a

(* ------------------------------ inputs -------------------------------- *)

\* "A b" and "a/B" derive the same base name, "c!" another one
Title1 == <<"A", " ", "b">>
Title2 == <<"a", "/", "B">>
Title3 == <<"c", "!">>
Titles == {Title1, Title2, Title3}

\* the dicts of articles_list: a title, an empty title, no title at all (the
\* description only goes into the prompt and is left out of a titled request)
Requests ==
  {[title |-> t] : t \in Titles \cup {<< >>}} \cup {[description |-> << >>]}

\* dict.get(key, default)
Get(r, key, default) == IF key \in DOMAIN r THEN r[key] ELSE default

\* line 260
TitleOf(request) == Get(request, "title", << >>)

\* the requests of a list that get past line 263
Titled(l) == {k \in DOMAIN l : TitleOf(l[k]) # << >>}

RequestLists ==
  {l \in UNION {[1..n -> Requests] : n \in 0..MaxRequests} :
     Cardinality(Titled(l)) <= MaxTitled}

Formats == {<<"h", "t", "m", "l">>, <<"m", "a", "r", "k", "d", "o", "w", "n">>}

\* what the content call can give back: a response whose text can be read,
\* or one whose .text raises
RawTexts == {<<"y", " ", "z">>}
Responses ==
  {[readable |-> TRUE, text |-> t] : t \in RawTexts}
    \cup {[readable |-> FALSE, text |-> << >>]}

\* what an enricher's call can give back: a text, or an exception
EnricherOutcomes == {[ok |-> TRUE, text |-> <<"d">>], [ok |-> FALSE, text |-> << >>]}

\* where a file system operation can fail
WriteOutcomes == {"ok", "mkdir_fails", "open_fails", "write_fails"}

(* ------------------------------- state -------------------------------- *)

VARIABLES
  articles_list,    \* generate_bulk_articles: the requests
  output_format,    \* generate_bulk_articles: the format selector
  dirExists,        \* whether output_dir exists
  disk,             \* the files of output_dir: path -> what the file holds
  disk0,            \* the files of output_dir when the run began
  error,            \* the exception that ended the run, if any
  pc,               \* where control is
  i,                \* generate_bulk_articles: the loop index (1-based)
  results,          \* generate_bulk_articles: the accumulated list
  article_data,     \* generate_bulk_articles: the result of the current request
  filepath,         \* generate_bulk_articles: the path the writer returned
  returned,         \* what generate_bulk_articles returned
  title,            \* generate_article_with_gemini: its argument
  max_retries,      \* generate_article_with_gemini: its argument
  attempt,          \* generate_article_with_gemini: the loop variable
  response,         \* generate_article_with_gemini: the response of the call
  content,          \* generate_article_with_gemini: the post-processed text
  meta_description, \* generate_article_with_gemini: the first enricher's value
  ret,              \* what generate_article_with_gemini returned
  calls,            \* content calls made by the running invocation
  someReturned,     \* whether one of them has returned a response
  sleeps,           \* time.sleep durations of the running invocation
  genLog,           \* the requests generation was invoked for, in order
  log,              \* warnings and errors printed by generate_bulk_articles
  pauses            \* the pacing pauses: <<request, duration>>

batchVars ==
  <<articles_list, output_format, dirExists, disk, disk0, error, i, results,
    article_data, filepath, returned, genLog, log, pauses>>
retryVars ==
  <<title, max_retries, attempt, response, content, meta_description, ret,
    calls, someReturned, sleeps>>
vars == <<pc, batchVars, retryVars>>

NoFiles == [q \in {} |-> StaleFile]

Ext(fmt) == IF IsHtml(fmt) THEN "html" ELSE "md"

\* the locals of generate_article_with_gemini when it is not running
RetryIdle ==
  /\ title = << >>
  /\ attempt = 0
  /\ response = None
  /\ content = << >>
  /\ meta_description = << >>
  /\ ret = None
  /\ calls = 0
  /\ someReturned = FALSE
  /\ sleeps = << >>

\* the state at the call of generate_bulk_articles: any request list, either
\* format, output_dir absent, empty, or holding an article of an earlier run
Init ==
  /\ articles_list \in RequestLists
  /\ output_format \in Formats
  /\ \/ dirExists = FALSE /\ disk = NoFiles
     \/ dirExists = TRUE /\ disk = NoFiles
     \/ dirExists = TRUE
        /\ disk = WriteFile(NoFiles, ArticlePath(Title1, Ext(output_format)), StaleFile)
  /\ disk0 = disk
  /\ error = "none"
  /\ pc = "loop"
  /\ i = 1
  /\ results = << >>
  /\ article_data = None
  /\ filepath = None
  /\ returned = None
  /\ max_retries = DefaultMaxRetries
  /\ RetryIdle
  /\ genLog = << >>
  /\ log = << >>
  /\ pauses = << >>

(* ------------------- generate_article_with_gemini --------------------- *)

\* a backoff after the last attempt too
RetriesRemainOffByOne(a, m) == a < m

\* the backoff branch of line 116
RetriesRemain(a, m) == a < m - 1

\* line 75: the next value of range(max_retries), or the end of the loop
\* (reached only when max_retries < 1; the function then returns None)
ForAttempt ==
  /\ pc = "for"
  /\ IF attempt < max_retries
       THEN pc' = "call" /\ ret' = ret
       ELSE pc' = "gen_return" /\ ret' = None
  /\ UNCHANGED <<batchVars, title, max_retries, attempt, response, content,
                 meta_description, calls, someReturned, sleeps>>

\* lines 79-87: model.generate_content raises
CallRaises ==
  /\ pc = "call"
  /\ calls' = calls + 1
  /\ pc' = "except"
  /\ UNCHANGED <<batchVars, title, max_retries, attempt, response, content,
                 meta_description, ret, someReturned, sleeps>>

\* lines 79-87: model.generate_content returns a response
CallReturns ==
  /\ pc = "call"
  /\ calls' = calls + 1
  /\ someReturned' = TRUE
  /\ \E r \in Responses : response' = r
  /\ pc' = "post"
  /\ UNCHANGED <<batchVars, title, max_retries, attempt, content,
                 meta_description, ret, sleeps>>

\* lines 89-96: read response.text (which may raise) and clean it up
PostProcessResponse ==
  /\ pc = "post"
  /\ IF response.readable
       THEN content' = PostProcess(title, response.text) /\ pc' = "meta"
       ELSE content' = content /\ pc' = "except"
  /\ response' = None
  /\ UNCHANGED <<batchVars, title, max_retries, attempt, meta_description, ret,
                 calls, someReturned, sleeps>>

\* lines 124-139: generate_meta_description, for an outcome o of its call
GenerateMetaDescription(c, o) ==
  IF o.ok THEN MetaFromResponse(o.text) ELSE MetaFallback(c)

\* lines 141-155: generate_keywords, for an outcome o of its call
GenerateKeywords(t, c, o) ==
  IF o.ok THEN KeywordsFromResponse(o.text) ELSE KeywordsFallback(t)

\* a failure of the description call raised into the attempt's handler
EnrichDescriptionRaises ==
  /\ pc = "meta"
  /\ \E o \in EnricherOutcomes :
       IF o.ok
         THEN meta_description' = MetaFromResponse(o.text) /\ pc' = "keywords"
         ELSE meta_description' = meta_description /\ pc' = "except"
  /\ UNCHANGED <<batchVars, title, max_retries, attempt, response, content, ret,
                 calls, someReturned, sleeps>>

\* line 99
EnrichDescription ==
  /\ pc = "meta"
  /\ \E o \in EnricherOutcomes :
       meta_description' = GenerateMetaDescription(content, o)
  /\ pc' = "keywords"
  /\ UNCHANGED <<batchVars, title, max_retries, attempt, response, content, ret,
                 calls, someReturned, sleeps>>

\* lines 102-112: the keywords, and the return of the record
EnrichKeywordsAndReturn ==
  /\ pc = "keywords"
  /\ \E o \in EnricherOutcomes :
       ret' = ArticleData(title, content, meta_description,
                          GenerateKeywords(title, content, o))
  /\ pc' = "gen_return"
  /\ UNCHANGED <<batchVars, title, max_retries, attempt, response, content,
                 meta_description, calls, someReturned, sleeps>>

\* giving up hands back what the attempts have got so far
ExceptReturnsPartial ==
  /\ pc = "except"
  /\ IF RetriesRemain(attempt, max_retries)
       THEN /\ sleeps' = Append(sleeps, WaitTime(attempt))
            /\ pc' = "backoff"
            /\ ret' = ret
       ELSE /\ sleeps' = sleeps
            /\ pc' = "gen_return"
            /\ ret' = [title |-> title, content |-> content]
  /\ UNCHANGED <<batchVars, title, max_retries, attempt, response, content,
                 meta_description, calls, someReturned>>

\* lines 114-122: the handler of any exception of the attempt
Except ==
  /\ pc = "except"
  /\ IF RetriesRemain(attempt, max_retries)
       THEN /\ sleeps' = Append(sleeps, WaitTime(attempt))
            /\ pc' = "backoff"
            /\ ret' = ret
       ELSE /\ sleeps' = sleeps
            /\ pc' = "gen_return"
            /\ ret' = None
  /\ UNCHANGED <<batchVars, title, max_retries, attempt, response, content,
                 meta_description, calls, someReturned>>

\* a retry that does not count the attempt
BackoffElapsedSameAttempt ==
  /\ pc = "backoff"
  /\ attempt' = attempt
  /\ pc' = "for"
  /\ UNCHANGED <<batchVars, title, max_retries, response, content,
                 meta_description, ret, calls, someReturned, sleeps>>

\* line 119 returns: the sleep is over, the loop goes on
BackoffElapsed ==
  /\ pc = "backoff"
  /\ attempt' = attempt + 1
  /\ pc' = "for"
  /\ UNCHANGED <<batchVars, title, max_retries, response, content,
                 meta_description, ret, calls, someReturned, sleeps>>

RetryNext ==
  \/ ForAttempt
  \/ CallRaises
  \/ CallReturns
  \/ PostProcessResponse
  \/ EnrichDescription
  \/ EnrichKeywordsAndReturn
  \/ Except
  \/ BackoffElapsed

(* ----------------------- generate_bulk_articles ----------------------- *)

\* the locals of generate_article_with_gemini are gone once it has returned
RetryReset ==
  /\ title' = << >>
  /\ attempt' = 0
  /\ response' = None
  /\ content' = << >>
  /\ meta_description' = << >>
  /\ ret' = None
  /\ calls' = 0
  /\ someReturned' = FALSE
  /\ sleeps' = << >>

\* a request without a title reported as a failed one
SkipRequestAsFailure ==
  /\ pc = "loop"
  /\ i <= Len(articles_list)
  /\ TitleOf(articles_list[i]) = << >>
  /\ log' = Append(log, [level |-> "error", request |-> i])
  /\ i' = i + 1
  /\ UNCHANGED <<pc, articles_list, output_format, dirExists, disk, disk0, error,
                 results, article_data, filepath, returned, genLog, pauses,
                 retryVars>>

\* lines 255-265: a request without a title is skipped with a warning
SkipRequest ==
  /\ pc = "loop"
  /\ i <= Len(articles_list)
  /\ TitleOf(articles_list[i]) = << >>
  /\ log' = Append(log, [level |-> "warning", request |-> i])
  /\ i' = i + 1
  /\ UNCHANGED <<pc, articles_list, output_format, dirExists, disk, disk0, error,
                 results, article_data, filepath, returned, genLog, pauses,
                 retryVars>>

\* lines 255-268: generate_article_with_gemini(title, description) is called
InvokeGenerate ==
  /\ pc = "loop"
  /\ i <= Len(articles_list)
  /\ TitleOf(articles_list[i]) # << >>
  /\ genLog' = Append(genLog, i)
  /\ title' = TitleOf(articles_list[i])
  /\ max_retries' = DefaultMaxRetries
  /\ pc' = "for"
  /\ UNCHANGED <<articles_list, output_format, dirExists, disk, disk0, error, i,
                 results, article_data, filepath, returned, log, pauses, attempt,
                 response, content, meta_description, ret, calls, someReturned, sleeps>>

\* a failed request that ends the loop
GenerateReturnedAbortOnFailure ==
  /\ pc = "gen_return"
  /\ article_data' = ret
  /\ IF ret # None
       THEN pc' = "save" /\ i' = i /\ log' = log
       ELSE /\ pc' = "summary"
            /\ i' = i + 1
            /\ log' = Append(log, [level |-> "error", request |-> i])
  /\ RetryReset
  /\ UNCHANGED <<articles_list, output_format, dirExists, disk, disk0, error,
                 results, filepath, returned, genLog, pauses, max_retries>>

\* lines 268-270 and 283-284: the call returns; None is logged as a failure
GenerateReturned ==
  /\ pc = "gen_return"
  /\ article_data' = ret
  /\ IF ret # None
       THEN pc' = "save" /\ i' = i /\ log' = log
       ELSE /\ pc' = "loop"
            /\ i' = i + 1
            /\ log' = Append(log, [level |-> "error", request |-> i])
  /\ RetryReset
  /\ UNCHANGED <<articles_list, output_format, dirExists, disk, disk0, error,
                 results, filepath, returned, genLog, pauses, max_retries>>

\* the failure of the writer caught inside the loop: an error is logged and
\* the loop goes on with the next request
SaveArticleCatchesFailure ==
  /\ pc = "save"
  /\ LET path == ArticlePath(article_data.title, Ext(output_format))
         file == IF IsHtml(output_format) THEN HtmlFile(article_data)
                                         ELSE MarkdownFile(article_data)
     IN \E o \in WriteOutcomes :
          \/ /\ o = "ok"
             /\ dirExists' = TRUE
             /\ disk' = WriteFile(disk, path, file)
             /\ filepath' = path
             /\ UNCHANGED <<error, i, log, article_data>>
             /\ pc' = "append"
          \/ /\ o = "mkdir_fails"
             /\ ~dirExists
             /\ UNCHANGED <<dirExists, disk, filepath>>
             /\ error' = "OSError"
             /\ log' = Append(log, [level |-> "error", request |-> i])
             /\ article_data' = None
             /\ i' = i + 1
             /\ pc' = "loop"
          \/ /\ o = "open_fails"
             /\ dirExists' = TRUE
             /\ UNCHANGED <<disk, filepath>>
             /\ error' = "OSError"
             /\ log' = Append(log, [level |-> "error", request |-> i])
             /\ article_data' = None
             /\ i' = i + 1
             /\ pc' = "loop"
          \/ /\ o = "write_fails"
             /\ dirExists' = TRUE
             /\ disk' = WriteFile(disk, path, PartialFile)
             /\ filepath' = filepath
             /\ error' = "OSError"
             /\ log' = Append(log, [level |-> "error", request |-> i])
             /\ article_data' = None
             /\ i' = i + 1
             /\ pc' = "loop"
  /\ UNCHANGED <<articles_list, output_format, disk0, results,
                 returned, genLog, pauses, retryVars>>

\* lines 272-275 (157-233): the writer makes the directory and writes the file;
\* a failure of the file system propagates out of generate_bulk_articles
SaveArticle ==
  /\ pc = "save"
  /\ LET path == ArticlePath(article_data.title, Ext(output_format))
         file == IF IsHtml(output_format) THEN HtmlFile(article_data)
                                         ELSE MarkdownFile(article_data)
     IN \E o \in WriteOutcomes :
          \/ /\ o = "ok"
             /\ dirExists' = TRUE
             /\ disk' = WriteFile(disk, path, file)
             /\ filepath' = path
             /\ error' = error
             /\ pc' = "append"
          \/ /\ o = "mkdir_fails"
             /\ ~dirExists
             /\ UNCHANGED <<dirExists, disk, filepath>>
             /\ error' = "OSError"
             /\ pc' = "fatal_write"
          \/ /\ o = "open_fails"
             /\ dirExists' = TRUE
             /\ UNCHANGED <<disk, filepath>>
             /\ error' = "OSError"
             /\ pc' = "fatal_write"
          \/ /\ o = "write_fails"
             /\ dirExists' = TRUE
             /\ disk' = WriteFile(disk, path, PartialFile)
             /\ filepath' = filepath
             /\ error' = "OSError"
             /\ pc' = "fatal_write"
  /\ UNCHANGED <<articles_list, output_format, disk0, i, results, article_data,
                 returned, genLog, log, pauses, retryVars>>

\* line 277: article_data['filepath'] = filepath
WithFilepath(a, p) ==
  [title |-> a.title, content |-> a.content,
   meta_description |-> a.meta_description, keywords |-> a.keywords,
   word_count |-> a.word_count, filepath |-> p]

\* a pause after the last request too
PauseFollowsAlways(k, n) == k <= n

\* line 281: whether the pacing pause follows request k of n
PauseFollows(k, n) == k < n

\* lines 277-282: record the path, append the result, pause if due
AppendResult ==
  /\ pc = "append"
  /\ results' = Append(results, WithFilepath(article_data, filepath))
  /\ article_data' = None
  /\ filepath' = None
  /\ IF PauseFollows(i, Len(articles_list))
       THEN /\ pauses' = Append(pauses, <<i, PacingDelay>>)
            /\ pc' = "pause"
            /\ i' = i
       ELSE /\ pauses' = pauses
            /\ pc' = "loop"
            /\ i' = i + 1
  /\ UNCHANGED <<articles_list, output_format, dirExists, disk, disk0, error,
                 returned, genLog, log, retryVars>>

\* a pause after which the next request is passed over
PauseElapsedSkipsOne ==
  /\ pc = "pause"
  /\ i' = i + 2
  /\ pc' = "loop"
  /\ UNCHANGED <<articles_list, output_format, dirExists, disk, disk0, error,
                 results, article_data, filepath, returned, genLog, log, pauses,
                 retryVars>>

\* line 282 returns: the pause is over
PauseElapsed ==
  /\ pc = "pause"
  /\ i' = i + 1
  /\ pc' = "loop"
  /\ UNCHANGED <<articles_list, output_format, dirExists, disk, disk0, error,
                 results, article_data, filepath, returned, genLog, log, pauses,
                 retryVars>>

\* the loop waiting for one request more than the list holds
EndOfListOffByOne ==
  /\ pc = "loop"
  /\ i > Len(articles_list) + 1
  /\ pc' = "summary"
  /\ UNCHANGED <<batchVars, retryVars>>

\* lines 255 and 286-288: the list is exhausted
EndOfList ==
  /\ pc = "loop"
  /\ i > Len(articles_list)
  /\ pc' = "summary"
  /\ UNCHANGED <<batchVars, retryVars>>

\* lines 291-293 (295-316): save_generation_summary opens the summary file,
\* which raises when output_dir does not exist, and the list is returned
SaveSummaryAndReturn ==
  /\ pc = "summary"
  /\ IF ~dirExists
       THEN /\ pc' = "fatal_summary"
            /\ error' = "FileNotFoundError"
            /\ UNCHANGED <<disk, returned>>
       ELSE \E o \in WriteOutcomes \ {"mkdir_fails"} :
              \/ /\ o = "ok"
                 /\ disk' = WriteFile(disk, SummaryPath, Summary(results))
                 /\ returned' = results
                 /\ error' = error
                 /\ pc' = "done"
              \/ /\ o = "open_fails"
                 /\ UNCHANGED <<disk, returned>>
                 /\ error' = "OSError"
                 /\ pc' = "fatal_summary"
              \/ /\ o = "write_fails"
                 /\ disk' = WriteFile(disk, SummaryPath, PartialFile)
                 /\ returned' = returned
                 /\ error' = "OSError"
                 /\ pc' = "fatal_summary"
  /\ UNCHANGED <<articles_list, output_format, dirExists, disk0, i, results,
                 article_data, filepath, genLog, log, pauses, retryVars>>

BatchNext ==
  \/ SkipRequest
  \/ InvokeGenerate
  \/ GenerateReturned
  \/ SaveArticle
  \/ AppendResult
  \/ PauseElapsed
  \/ EndOfList
  \/ SaveSummaryAndReturn

Next == BatchNext \/ RetryNext

Spec == Init /\ [][Next]_vars

\* the program is one sequential thread: every external call returns or
\* raises, every time.sleep elapses, every file operation returns or raises,
\* so the step that is due is taken in the end
FairSpec == Spec /\ WF_vars(Next)

(* -------- generate_article_with_gemini called on its own --------------- *)

\* the state at a call of generate_article_with_gemini(title, description,
\* max_retries) from outside the batch loop, whose variables stay as they are
RetryInit ==
  /\ articles_list = << >>
  /\ output_format = <<"h", "t", "m", "l">>
  /\ dirExists = FALSE
  /\ disk = NoFiles
  /\ disk0 = NoFiles
  /\ error = "none"
  /\ pc = "for"
  /\ i = 0
  /\ results = << >>
  /\ article_data = None
  /\ filepath = None
  /\ returned = None
  /\ genLog = << >>
  /\ log = << >>
  /\ pauses = << >>
  /\ title \in Titles
  /\ max_retries \in 0..MaxRetriesBound
  /\ attempt = 0
  /\ response = None
  /\ content = << >>
  /\ meta_description = << >>
  /\ ret = None
  /\ calls = 0
  /\ someReturned = FALSE
  /\ sleeps = << >>

RetrySpec == RetryInit /\ [][RetryNext]_vars

(* ------------------- the text functions on their own -------------------- *)

\* a text of n letters
Xs(n) == [k \in 1..n |-> "x"]

\* titles for the text functions: those of the batch, and titles with
\* characters outside ASCII
TitleAccent == <<EAcuteUpper, " ", "1">>
TitleIdeograph == <<Ideograph, "b">>
TitleFraction == <<"1", OneHalf>>
TextTitles == Titles \cup {TitleAccent, TitleIdeograph, TitleFraction}

\* texts of the content call: plain; headed by another heading than the title;
\* headed by Title1; fenced; empty; with a second paragraph longer than the
\* fallback keeps; without paragraph break, short and longer than content[:200]
TextRawTexts ==
  {<<"y", " ", "z">>,
   HeadingMark \o <<"x">> \o ParagraphBreak \o <<"y", " ", "z">>,
   HeadingMark \o Title1 \o ParagraphBreak \o <<"y">>,
   FenceMarkdown \o <<"\n">> \o <<"y", " ", "z">> \o <<"\n">> \o Fence,
   << >>,
   HeadingMark \o <<"x">> \o ParagraphBreak \o Xs(FallbackLimit + 1),
   HeadingMark \o <<"x">>,
   HeadingMark \o Xs(FallbackPrefix + 1)}

\* what the call of an enricher gives back: the call raises (network), the
\* response's .text raises (malformed), or a text: empty, plain, quoted, long
TextEnricherOutcomes ==
  {[ok |-> FALSE, why |-> "network", text |-> << >>],
   [ok |-> FALSE, why |-> "malformed", text |-> << >>]}
    \cup {[ok |-> TRUE, why |-> "none", text |-> t] :
            t \in {<< >>, <<"d">>, <<"\"", "d", " ", "e", "\"", "\n">>,
                   Xs(MetaLimit + 1)}}

\* the state once the content call of an attempt has returned a readable
\* response, for any title and any text
TextInit ==
  /\ articles_list = << >>
  /\ output_format \in Formats
  /\ dirExists = FALSE
  /\ disk = NoFiles
  /\ disk0 = NoFiles
  /\ error = "none"
  /\ pc = "text_post"
  /\ i = 0
  /\ results = << >>
  /\ article_data = None
  /\ filepath = None
  /\ returned = None
  /\ genLog = << >>
  /\ log = << >>
  /\ pauses = << >>
  /\ title \in TextTitles
  /\ max_retries = DefaultMaxRetries
  /\ attempt = 0
  /\ response \in {[readable |-> TRUE, text |-> t] : t \in TextRawTexts}
  /\ content = << >>
  /\ meta_description = << >>
  /\ ret = None
  /\ calls = 1
  /\ someReturned = TRUE
  /\ sleeps = << >>

\* lines 89-96 applied to the response
TextPostProcess ==
  /\ pc = "text_post"
  /\ content' = PostProcess(title, response.text)
  /\ response' = None
  /\ pc' = "text_meta"
  /\ UNCHANGED <<batchVars, title, max_retries, attempt, meta_description, ret,
                 calls, someReturned, sleeps>>

\* lines 124-139 applied to the content; response is the enricher's own local
\* of that name (line 133), kept to tell which outcome the call had
TextDescription ==
  /\ pc = "text_meta"
  /\ \E o \in TextEnricherOutcomes :
       /\ response' = o
       /\ meta_description' = GenerateMetaDescription(content, o)
  /\ pc' = "text_keywords"
  /\ UNCHANGED <<batchVars, title, max_retries, attempt, content, ret,
                 calls, someReturned, sleeps>>

\* lines 141-155 applied to title and content (response: line 150), and the
\* record of lines 106-112
TextKeywords ==
  /\ pc = "text_keywords"
  /\ \E o \in TextEnricherOutcomes :
       /\ response' = o
       /\ ret' = ArticleData(title, content, meta_description,
                             GenerateKeywords(title, content, o))
  /\ pc' = "text_path"
  /\ UNCHANGED <<batchVars, title, max_retries, attempt, content,
                 meta_description, calls, someReturned, sleeps>>

\* lines 161-163 or 225-227 applied to the title of the record
TextPath ==
  /\ pc = "text_path"
  /\ filepath' = ArticlePath(ret.title, Ext(output_format))
  /\ pc' = "text_done"
  /\ UNCHANGED <<articles_list, output_format, dirExists, disk, disk0, error, i,
                 results, article_data, returned, genLog, log, pauses, retryVars>>

TextNext == TextPostProcess \/ TextDescription \/ TextKeywords \/ TextPath

TextSpec == TextInit /\ [][TextNext]_vars

(* ------------------------------ claims -------------------------------- *)

\* the backoffs between n consecutive failed attempts: 2^0, ..., 2^(n-2)
Backoffs(n) == [k \in 1..(n - 1) |-> 2 ^ (k - 1)]

\* an attempt of the running invocation has got through reading and cleaning
\* the response (the content always holds at least a heading)
AttemptSucceeded == content # << >>

\* C1: when generate_article_with_gemini returns with max_retries >= 1 and no
\* attempt of it has succeeded (every content call raised, or gave a response
\* that could not be read), it has made exactly max_retries calls, it returns
\* None, and it has slept exactly 2^0, ..., 2^(max_retries-2) in that order
\* (nothing after the last failed attempt).
C1_AllAttemptsFail ==
  (pc = "gen_return" /\ max_retries >= 1 /\ (~someReturned \/ ~AttemptSucceeded))
    => /\ calls = max_retries
       /\ ret = None
       /\ sleeps = Backoffs(max_retries)

C1_Witness ==
  /\ pc = "gen_return"
  /\ max_retries = 3
  /\ ~someReturned
  /\ calls = 3
  /\ ret = None
  /\ sleeps = <<1, 2>>

\* C2: once attempt k = attempt + 1 has succeeded, k content calls and k - 1
\* backoff sleeps of 2^0, ..., 2^(k-2) have been made, k <= max_retries, and
\* that stays so until the function returns, with a result, not None.
C2_SuccessOnAttemptK ==
  AttemptSucceeded
    => /\ pc \in {"meta", "keywords", "gen_return"}
       /\ calls = attempt + 1
       /\ attempt + 1 <= max_retries
       /\ Len(sleeps) = attempt
       /\ sleeps = Backoffs(attempt + 1)
       /\ pc = "gen_return" => (ret # None /\ ret.content = content)

C2_Witness ==
  /\ pc = "gen_return"
  /\ ret # None
  /\ attempt = 2
  /\ calls = 3
  /\ sleeps = <<1, 2>>

\* C3: in a batch run no request ever gets more than max_retries = 3 content
\* calls, whether its attempts fail in the call or in reading the response.
C3_CallsBounded ==
  /\ max_retries = DefaultMaxRetries
  /\ calls <= max_retries

C3_Witness ==
  /\ pc = "except"
  /\ calls = DefaultMaxRetries
  /\ someReturned

(* ------------------------- claims on the batch ------------------------ *)

NumRequests == Len(articles_list)

\* the loop of generate_bulk_articles has been left at its end
LoopOver == pc \in {"summary", "done", "fatal_summary"}

\* a message of that level has been printed for request j
Logged(level, j) == \E k \in DOMAIN log : log[k] = [level |-> level, request |-> j]

\* the requests among 1..n with a non-empty title, in list order
RECURSIVE TitledUpTo(_)
TitledUpTo(n) ==
  IF n <= 0 THEN << >>
  ELSE IF TitleOf(articles_list[n]) # << >> THEN Append(TitledUpTo(n - 1), n)
  ELSE TitledUpTo(n - 1)

\* the requests among 1..n with a title and no failure reported, in list order
RECURSIVE SuccessfulUpTo(_)
SuccessfulUpTo(n) ==
  IF n <= 0 THEN << >>
  ELSE IF TitleOf(articles_list[n]) # << >> /\ ~Logged("error", n)
    THEN Append(SuccessfulUpTo(n - 1), n)
  ELSE SuccessfulUpTo(n - 1)

Successful == SuccessfulUpTo(NumRequests)

TitlesOf(idx) == [k \in DOMAIN idx |-> TitleOf(articles_list[idx[k]])]

\* the requests the loop has reached so far
Reached ==
  IF pc = "loop" THEN i - 1 ELSE IF i > NumRequests THEN NumRequests ELSE i

\* C4: generation is invoked once for each request with a non-empty title, in
\* list order, whatever became of the earlier requests: at every moment for the
\* requests reached so far, and for all of them once the loop is over (which
\* only a failure of the file system while writing an article prevents).
C4_FailureNeverAbortsBatch ==
  /\ genLog = TitledUpTo(Reached)
  /\ LoopOver => genLog = TitledUpTo(NumRequests)
  /\ pc = "fatal_write" => error = "OSError"

C4_Witness ==
  /\ LoopOver
  /\ NumRequests = 3
  /\ Logged("error", 1)
  /\ genLog = <<1, 3>>
  /\ Len(results) = 1

\* what the writer of the run's format puts in the file of article a
FileOf(a) == IF IsHtml(output_format) THEN HtmlFile(a) ELSE MarkdownFile(a)

\* the article entries of the summary file
SummaryEntries == disk[SummaryPath].articles

\* the last entry of the summary with file path p
LastWithPath(p) ==
  CHOOSE k \in DOMAIN SummaryEntries :
    /\ SummaryEntries[k].filepath = p
    /\ \A l \in DOMAIN SummaryEntries : SummaryEntries[l].filepath = p => l <= k

\* C5 as claimed: at the end of a run the summary entries are those of the
\* successful requests and each names a file of its own holding its article.
C5_OneFilePerEntry ==
  pc = "done" =>
    /\ Len(SummaryEntries) = Len(Successful)
    /\ \A k \in DOMAIN SummaryEntries :
         /\ SummaryEntries[k].filepath \in DOMAIN disk
         /\ disk[SummaryEntries[k].filepath] = FileOf(returned[k])
         /\ \A l \in DOMAIN SummaryEntries :
              l # k => SummaryEntries[l].filepath # SummaryEntries[k].filepath

\* C5 amended: at the end of a run the summary entries are those of the
\* successful requests, in order; each names a file on disk; two entries name
\* the same file exactly when their titles derive the same base name, and that
\* file holds the article of the last of them.
C5_EntriesNameWrittenFiles ==
  pc = "done" =>
    /\ disk[SummaryPath] = Summary(returned)
    /\ [k \in DOMAIN SummaryEntries |-> SummaryEntries[k].title] = TitlesOf(Successful)
    /\ \A k \in DOMAIN SummaryEntries :
         /\ SummaryEntries[k].filepath \in DOMAIN disk
         /\ disk[SummaryEntries[k].filepath]
              = FileOf(returned[LastWithPath(SummaryEntries[k].filepath)])
         /\ \A l \in DOMAIN SummaryEntries :
              (SummaryEntries[l].filepath = SummaryEntries[k].filepath)
                <=> (BaseName(SummaryEntries[l].title) = BaseName(SummaryEntries[k].title))

C5_Witness ==
  /\ pc = "done"
  /\ Len(returned) = 2
  /\ returned[1].title # returned[2].title
  /\ returned[1].filepath = returned[2].filepath
  /\ disk[returned[1].filepath] = FileOf(returned[2])

\* the article files of output_dir
ArticleFiles == (DOMAIN disk) \ {SummaryPath}

\* C6 as claimed: a completed run that began with no file in output_dir leaves
\* the summary and as many article files as requests succeeded.
C6_OneFilePerSuccess ==
  (pc = "done" /\ disk0 = NoFiles) =>
    /\ SummaryPath \in DOMAIN disk
    /\ Cardinality(ArticleFiles) = Len(Successful)

\* C6 amended: a completed run that began with no file in output_dir leaves
\* the summary and one article file for each distinct base name derived from
\* the titles of the successful requests (as many as succeeded when these base
\* names differ pairwise, fewer otherwise).
C6_OneFilePerBaseName ==
  (pc = "done" /\ disk0 = NoFiles) =>
    /\ SummaryPath \in DOMAIN disk
    /\ Cardinality(ArticleFiles)
         = Cardinality({BaseName(TitleOf(articles_list[Successful[k]])) :
                          k \in DOMAIN Successful})
    /\ Cardinality(ArticleFiles) <= Len(Successful)

C6_Witness ==
  /\ pc = "done"
  /\ disk0 = NoFiles
  /\ Len(Successful) = 2
  /\ Cardinality(ArticleFiles) = 1

\* how many warnings have been printed for request j
WarningsFor(j) ==
  Cardinality({k \in DOMAIN log : log[k] = [level |-> "warning", request |-> j]})

\* the step taken when the request at hand has no title: one warning, the
\* next request, and nothing else (no call, no sleep, no write, no result)
C7_SkipStep ==
  (pc = "loop" /\ i <= NumRequests /\ TitleOf(articles_list[i]) = << >>)
    => /\ pc' = "loop"
       /\ i' = i + 1
       /\ log' = Append(log, [level |-> "warning", request |-> i])
       /\ UNCHANGED <<dirExists, disk, results, genLog, pauses, error, retryVars>>

\* the requests without a title that the loop has passed: one warning each, no
\* failure reported, no generation; and what a completed run returns and
\* summarises: the successful requests, in list order
C7_SkippedAndReturned ==
  /\ \A j \in 1..NumRequests :
       (j <= Reached /\ TitleOf(articles_list[j]) = << >> /\ ~(j = i /\ pc = "loop"))
         => /\ WarningsFor(j) = 1
            /\ ~Logged("error", j)
            /\ \A k \in DOMAIN genLog : genLog[k] # j
  /\ pc = "done" =>
       /\ [k \in DOMAIN returned |-> returned[k].title] = TitlesOf(Successful)
       /\ disk[SummaryPath] = Summary(returned)
       /\ [k \in DOMAIN SummaryEntries |-> SummaryEntries[k].title]
            = TitlesOf(Successful)

\* C7: a request with an empty or missing title is skipped with exactly one
\* warning, without any call, write or failure report, and the loop goes on
\* with the next request; a completed run returns and summarises exactly the
\* successful requests in their original order.
C7_EmptyTitleSkipped == [](C7_SkippedAndReturned) /\ [][C7_SkipStep]_vars

C7_Witness ==
  /\ pc = "done"
  /\ NumRequests = 3
  /\ TitleOf(articles_list[2]) = << >>
  /\ log = <<[level |-> "warning", request |-> 2]>>
  /\ Successful = <<1, 3>>
  /\ Len(returned) = 2
  /\ returned[1].title = TitleOf(articles_list[1])
  /\ returned[2].title = TitleOf(articles_list[3])

\* <<k, PacingDelay>> for the requests k of idx that satisfy keep
RECURSIVE PausesAfter(_, _)
PausesAfter(idx, keep) ==
  IF idx = << >> THEN << >>
  ELSE (IF Head(idx) \in keep THEN <<(<<Head(idx), PacingDelay>>)>> ELSE << >>)
       \o PausesAfter(Tail(idx), keep)

\* C8 as claimed: when the loop is over, the pauses made are those after each
\* successful request that a later successful request follows.
C8_PauseBetweenSuccesses ==
  LoopOver =>
    pauses = PausesAfter(Successful,
               {j \in 1..NumRequests :
                  \E k \in DOMAIN Successful : Successful[k] > j})

\* C8 amended: when the loop is over, the pauses made, of 2 time units each,
\* are those after each successful request that is not the last request of
\* the list, whatever becomes of the requests after it; none follows a
\* skipped or failed request, none the last request of the list.
C8_PauseAfterSuccessUnlessLast ==
  LoopOver =>
    pauses = PausesAfter(Successful, {j \in 1..NumRequests : j < NumRequests})

C8_Witness ==
  /\ LoopOver
  /\ NumRequests = 3
  /\ Successful = <<1>>
  /\ Logged("error", 2)
  /\ Logged("warning", 3)
  /\ pauses = <<(<<1, 2>>)>>

\* the state of request j, read off the state of the run
Status(j) ==
  IF j > i \/ (j = i /\ pc = "loop") THEN "PENDING"
  ELSE IF j = i THEN
    CASE pc \in {"for", "call", "post", "meta", "keywords", "except", "backoff"}
           -> "GENERATING"
      [] pc = "gen_return"
           -> IF ret # None THEN "SUCCEEDED" ELSE "FAILED_AFTER_RETRIES"
      [] pc \in {"save", "fatal_write"} -> "SUCCEEDED"
      [] pc \in {"append", "pause"} -> "WRITTEN"
      [] OTHER -> "UNKNOWN"
  ELSE IF Logged("warning", j) THEN "SKIPPED"
  ELSE IF Logged("error", j) THEN "FAILED_AFTER_RETRIES"
  ELSE IF \E k \in DOMAIN genLog : genLog[k] = j THEN "WRITTEN"
  ELSE "UNKNOWN"

StatusSteps ==
  {<<"PENDING", "GENERATING">>, <<"PENDING", "SKIPPED">>,
   <<"GENERATING", "SUCCEEDED">>, <<"GENERATING", "FAILED_AFTER_RETRIES">>,
   <<"SUCCEEDED", "WRITTEN">>}

TerminalStatus == {"WRITTEN", "FAILED_AFTER_RETRIES", "SKIPPED"}

C9_Step ==
  \A j \in 1..NumRequests :
    Status(j)' # Status(j) => <<Status(j), Status(j)'>> \in StatusSteps

C9_OneAtATime ==
  /\ \A j \in 1..NumRequests : Status(j) # "UNKNOWN"
  /\ Cardinality({j \in 1..NumRequests :
                    Status(j) \in {"GENERATING", "SUCCEEDED"}}) <= 1
  /\ \A j \in 1..NumRequests :
       (j < NumRequests /\ Status(j + 1) # "PENDING") => Status(j) \in TerminalStatus

\* C9: each request moves PENDING -> GENERATING -> SUCCEEDED or
\* FAILED_AFTER_RETRIES, SUCCEEDED -> WRITTEN (or PENDING -> skipped), never
\* back; at most one request is being generated at a time, and a request
\* leaves PENDING only when the one before it is WRITTEN, failed or skipped.
C9_RequestStateMachine == [](C9_OneAtATime) /\ [][C9_Step]_vars

C9_Witness ==
  /\ NumRequests = 3
  /\ Status(1) = "FAILED_AFTER_RETRIES"
  /\ Status(2) = "SKIPPED"
  /\ Status(3) = "SUCCEEDED"
  /\ pc = "save"

\* C10 as claimed: once all requests are processed, and unless the file system
\* fails under the write, the summary of the successful requests is written
\* and the accumulated list returned, whether or not output_dir existed.
C10_SummaryAlwaysPersisted ==
  [][(pc = "summary" /\ error' # "OSError")
       => /\ pc' = "done"
          /\ SummaryPath \in DOMAIN disk'
          /\ disk'[SummaryPath] = Summary(results)
          /\ disk'[SummaryPath].total_articles = Len(Successful)
          /\ returned' = results]_vars

\* a step in which an article write fails
WriteFails == pc = "save" /\ error' = "OSError"

\* the path the writer is about to write
PathAtHand == ArticlePath(article_data.title, Ext(output_format))

\* the paths of the files written for the earlier requests of the run
EarlierPaths == {results[k].filepath : k \in DOMAIN results}

\* the run has ended in the failure of an article write: nothing was returned,
\* no summary was written, and no request after the failing one was touched
C11_EndedAtWrite ==
  pc = "fatal_write"
    => /\ error = "OSError"
       /\ returned = None
       /\ SummaryPath \notin DOMAIN disk
       /\ genLog # << >> /\ genLog[Len(genLog)] = i
       /\ \A j \in (i + 1)..NumRequests :
            ~Logged("warning", j) /\ ~Logged("error", j)

\* C11 as claimed: a failing article write ends the run and leaves every file
\* written for an earlier request of the run on disk unchanged.
C11_EarlierFilesUnchanged ==
  [][WriteFails
       => /\ pc' = "fatal_write"
          /\ \A p \in EarlierPaths : p \in DOMAIN disk' /\ disk'[p] = disk[p]]_vars

\* C11, amended: a failure of the file system while an article is written is
\* not caught: the run ends there, with no later request generated, no summary
\* written and nothing returned; the files written for earlier requests stay
\* on disk, unchanged except the one (if any) at the very path of the failing
\* write, which the failing write may have truncated.
C11_WriteFailureIsFatal ==
  /\ [](C11_EndedAtWrite)
  /\ [][pc = "fatal_write" => FALSE]_vars
  /\ [][WriteFails
          => /\ pc' = "fatal_write"
             /\ results' = results /\ returned' = returned
             /\ \A p \in EarlierPaths :
                  /\ p \in DOMAIN disk'
                  /\ (p # PathAtHand => disk'[p] = disk[p])
                  /\ disk'[p] \in {disk[p], PartialFile}]_vars

C11_Witness ==
  /\ pc = "fatal_write"
  /\ NumRequests = 3
  /\ i = 2
  /\ Len(results) = 1
  /\ results[1].filepath # ArticlePath(article_data.title, Ext(output_format))
  /\ disk[results[1].filepath] = FileOf(results[1])
  /\ ArticlePath(article_data.title, Ext(output_format)) \in DOMAIN disk
  /\ disk[ArticlePath(article_data.title, Ext(output_format))] = PartialFile

\* the step of an enricher: it hands a value back and the attempt goes on to
\* its return; no call of the content generator, no sleep, no new attempt
C12_EnrichStep ==
  /\ pc = "meta" => pc' = "keywords"
  /\ pc = "keywords" => /\ pc' = "gen_return"
                        /\ ret' # None
                        /\ ret'.content = content
                        /\ ret'.meta_description = meta_description
  /\ pc \in {"meta", "keywords"}
       => UNCHANGED <<calls, sleeps, attempt, content, title, max_retries>>

\* C12: the enrichers never raise: whatever the outcome of their external
\* call they return a value, so a failure of enrichment is never surfaced,
\* never makes the content call be retried and never turns a successful
\* attempt into a failed one.
C12_EnrichersNeverRaise ==
  /\ [][C12_EnrichStep]_vars
  /\ [](pc \in {"meta", "keywords"} => AttemptSucceeded /\ ret = None)

C12_Witness ==
  /\ pc = "gen_return"
  /\ ret # None
  /\ ret.meta_description = MetaFallback(content)
  /\ ret.keywords = KeywordsFallback(title)
  /\ calls = 2
  /\ sleeps = <<1>>

\* the external call of the enricher that has just run failed in one of the
\* ways the specification lists: it raised, its response could not be read,
\* or its response text was empty
EnricherCallFailed == ~response.ok \/ response.text = << >>

\* C13 as claimed: whenever the external call of an enricher fails (network
\* error, malformed response, or empty response) the enricher returns its
\* local fallback; an empty response text yields the fallback, not an empty
\* string.
C13_FallbackOnEveryFailure ==
  /\ (pc = "text_keywords" /\ EnricherCallFailed)
       => /\ meta_description = MetaFallback(content)
          /\ meta_description # << >>
  /\ (pc = "text_path" /\ EnricherCallFailed)
       => /\ ret.keywords = KeywordsFallback(title)
          /\ ret.keywords # << >>

\* the piece of the content the fallback description is cut from: the second
\* paragraph when there is one, else the first 200 characters
FallbackSource ==
  IF Find(content, ParagraphBreak) # 0
    THEN Split(content, ParagraphBreak)[2]
    ELSE Take(content, FallbackPrefix)

\* C14: the meta_description of every record returned is at most 160
\* characters long, whether it came from the external call or from the
\* fallback; when the call fails it is not empty and is made of the content
\* alone: the first 157 characters of the second paragraph (or of the first
\* 200 characters) and an ellipsis.
C14_MetaDescriptionBounded ==
  /\ pc \in {"text_keywords", "text_path", "text_done"}
       => Len(meta_description) <= MetaLimit
  /\ pc \in {"text_path", "text_done"}
       => /\ ret.meta_description = meta_description
          /\ Len(ret.meta_description) <= MetaLimit
  /\ (pc = "text_keywords" /\ ~response.ok)
       => /\ meta_description # << >>
          /\ meta_description = Take(FallbackSource, FallbackLimit) \o Ellipsis

C14_Witness ==
  /\ pc = "text_keywords"
  /\ ~response.ok
  /\ Len(FallbackSource) > FallbackLimit
  /\ Len(meta_description) = MetaLimit

\* the fields of an ArticleResult as generate_article_with_gemini returns it
ResultFields == {"title", "content", "meta_description", "keywords", "word_count"}

\* a record with every field set, made of one attempt that got through
CompleteResult(r) ==
  /\ DOMAIN r = ResultFields
  /\ r.title = title
  /\ r.content = content /\ content # << >>
  /\ r.meta_description = meta_description
  /\ r.keywords \in Seq(STRING)
  /\ r.word_count = WordCount(content)

\* C15: generate_article_with_gemini is all-or-nothing: for every max_retries
\* and every pattern of failures it returns either nothing or a record with
\* title, content, meta_description, keywords and word_count all set; a
\* failure at any point of an attempt leads to a retry or to the failure of
\* the call, never to a partial result.
C15_AllOrNothing ==
  /\ [](ret = None \/ (pc = "gen_return" /\ CompleteResult(ret)))
  /\ [][pc = "except" => (pc' \in {"backoff", "gen_return"} /\ ret' = None)]_vars
  /\ [][(pc = "post" /\ ~response.readable) => (pc' = "except" /\ ret' = None)]_vars

C15_Witness ==
  /\ pc = "gen_return"
  /\ ret = None
  /\ someReturned
  /\ max_retries = 2
  /\ calls = 2

\* the ASCII characters of the titles
Ascii == Digits \cup LowerLetters \cup UpperLetters \cup {" ", "/", "!", "-"}

\* C16 as claimed: the base file name derived from a non-empty title contains
\* only lowercase letters, digits and hyphens (and is the same in both writers).
C16_OnlyLowercaseDigitsHyphens ==
  pc = "text_done"
    => /\ \A k \in DOMAIN filepath.name :
            filepath.name[k] \in LowerLetters \cup {EAcute} \cup Digits \cup {"-"}
       /\ ArticlePath(title, "html").name = ArticlePath(title, "md").name

\* C16, amended: the base file name derived from a non-empty title T contains
\* only hyphens and the alphanumeric characters (in Python's sense, which is
\* Unicode's) of T in lowercase: lowercase letters, digits and hyphens when T
\* is ASCII, and besides them letters without case and numeric characters
\* that are not digits when T holds such; it holds no space, slash or
\* uppercase letter, is a function of T alone, and is the same in the HTML
\* and the Markdown writer, which differ in the extension only.
C16_BaseNameAlnumOrHyphen ==
  pc = "text_done"
    => /\ \A k \in DOMAIN filepath.name :
            filepath.name[k] \in LowerLetters \cup Digits \cup {"-"}
                                   \cup {EAcute, Ideograph, OneHalf}
       /\ (\A k \in DOMAIN title : title[k] \in Ascii)
            => \A k \in DOMAIN filepath.name :
                 filepath.name[k] \in LowerLetters \cup Digits \cup {"-"}
       /\ filepath.name = ArticlePath(title, "html").name
       /\ filepath.name = ArticlePath(title, "md").name
       /\ filepath.ext = (IF output_format = <<"h", "t", "m", "l">> THEN "html" ELSE "md")

C16_Witness ==
  /\ pc = "text_done"
  /\ title = TitleFraction
  /\ filepath = [name |-> <<"1", OneHalf>>, ext |-> "md"]

\* C17 as claimed: the content of every successful generation begins with the
\* heading "# " followed by the title, also when the generator's text begins
\* with a top-level heading of another text.
C17_ContentBeginsWithTitle ==
  pc \in {"text_meta", "text_keywords", "text_path", "text_done"}
    => StartsWith(content, HeadingMark \o title)

\* the writer is about to write to a path that already holds a file
PathTaken == pc = "save" /\ PathAtHand \in DOMAIN disk

\* unless the file system fails under it, a write to a taken path returns
\* that path and leaves there the article at hand, whole, and nothing else of
\* what the file held; no other file changes
C18_OverwriteStep ==
  (PathTaken /\ error' # "OSError")
    => /\ pc' = "append"
       /\ error' = "none"
       /\ filepath' = PathAtHand
       /\ DOMAIN disk' = DOMAIN disk
       /\ disk'[PathAtHand] = FileOf(article_data)
       /\ \A p \in DOMAIN disk : p # PathAtHand => disk'[p] = disk[p]

\* C18: the Output Writer overwrites silently: writing an article whose
\* derived path already holds a file (of an earlier request of the run or of
\* an earlier run) raises no error on that account, returns the same path,
\* and leaves the file holding the content of the latest write only.
C18_OverwritesSilently ==
  /\ [](PathTaken => ENABLED (SaveArticle /\ pc' = "append"))
  /\ [][C18_OverwriteStep]_vars

C18_Witness ==
  /\ pc = "append"
  /\ filepath \in DOMAIN disk0
  /\ disk0[filepath] = StaleFile
  /\ Len(results) = 1
  /\ results[1].filepath = filepath
  /\ results[1].title # article_data.title
  /\ disk[filepath] = FileOf(article_data)

\* the run has reached its end: the list returned after the summary step, or
\* an error of the file system raised out of generate_bulk_articles
RunEnded == pc \in {"done", "fatal_write", "fatal_summary"}

\* C19: for every finite request list and every outcome of the external
\* calls, with every timed wait elapsing in the end, generate_bulk_articles
\* terminates: the run reaches its end (the summary step or a fatal error of
\* the file system) with no request left in generation, so none is retried
\* forever, and once the loop is over every request is skipped, written or
\* failed.
C19_Terminates ==
  /\ <>RunEnded
  /\ [](RunEnded => \A j \in 1..NumRequests : Status(j) # "GENERATING")
  /\ [](LoopOver => \A j \in 1..NumRequests : Status(j) \in TerminalStatus)

C19_Witness ==
  /\ pc = "done"
  /\ NumRequests = 3
  /\ pauses # << >>
  /\ Status(1) = "WRITTEN"
  /\ Status(2) = "FAILED_AFTER_RETRIES"
  /\ Status(3) = "SKIPPED"

\* where control is after each step of a request that succeeds: the content
\* call returned, post-processing, description, keywords and return, file
\* write, append, pacing pause
C20_Order ==
  /\ (pc = "post" /\ pc' # "except") => pc' = "meta"
  /\ pc = "meta" => pc' = "keywords"
  /\ pc = "keywords" => (pc' = "gen_return" /\ ret' # None)
  /\ (pc = "gen_return" /\ ret # None) => (pc' = "save" /\ article_data' = ret)
  /\ (pc = "save" /\ error' # "OSError")
       => /\ pc' = "append"
          /\ filepath' \in DOMAIN disk'
          /\ disk'[filepath'] = FileOf(article_data)
          /\ results' = results
  /\ pc = "append"
       => /\ results' = Append(results, WithFilepath(article_data, filepath))
          /\ disk' = disk
          /\ pc' = (IF i < NumRequests THEN "pause" ELSE "loop")
  /\ pc = "pause" => (pc' = "loop" /\ i' = i + 1 /\ results' = results)

\* a result is appended by the append step only, which comes after the write
C20_AppendAfterWrite ==
  results' # results
    => /\ pc = "append"
       /\ Len(results') = Len(results) + 1
       /\ SubSeq(results', 1, Len(results)) = results
       /\ results'[Len(results')].filepath \in DOMAIN disk
       /\ disk[results'[Len(results')].filepath] = FileOf(article_data)

\* every accumulated result has a filepath, of a file that was written whole:
\* the file is on disk and holds an article of the run with that path (the
\* last one written there), unless a later write that failed has cut it
C20_ResultsWritten ==
  \A k \in DOMAIN results :
    /\ "filepath" \in DOMAIN results[k]
    /\ results[k].filepath = ArticlePath(results[k].title, Ext(output_format))
    /\ results[k].filepath \in DOMAIN disk
    /\ \/ \E l \in k..Len(results) :
            /\ results[l].filepath = results[k].filepath
            /\ disk[results[k].filepath] = FileOf(results[l])
       \/ /\ pc \in {"append", "pause"}
          /\ filepath = results[k].filepath
          /\ disk[results[k].filepath] = FileOf(article_data)
       \/ /\ pc = "fatal_write"
          /\ disk[results[k].filepath] = PartialFile

\* C20: within one successful request the steps occur in a fixed order:
\* content call, description enricher, keyword enricher, file write, append
\* of the result with its filepath, pacing pause if any; a result is appended
\* only after its file has been written, so every accumulated result has at
\* every moment a filepath whose write has completed.
C20_StepsInOrder ==
  /\ [][C20_Order]_vars
  /\ [][C20_AppendAfterWrite]_vars
  /\ [](C20_ResultsWritten)

C20_Witness ==
  /\ pc = "pause"
  /\ i = 2
  /\ Len(results) = 2
  /\ results[2].filepath # results[1].filepath
  /\ disk[results[2].filepath] = FileOf(results[2])
  /\ Len(pauses) = 2

====
